---- MODULE Spec2Model ----
(***************************************************************************)
(* Model of LiquidAPIUserStreamDataSource                                  *)
(* (hummingbot/market/liquid/liquid_api_user_stream_data_source.py).       *)
(*                                                                         *)
(* One asyncio task runs listen_for_user_stream.  The task is suspended at *)
(* exactly one await at a time; pc names that await.  Every action is one  *)
(* resumption of the task (the awaited operation succeeds, fails, times    *)
(* out, or the task is cancelled) followed by all the synchronous code up  *)
(* to the next await.                                                      *)
(***************************************************************************)
EXTENDS Integers, Sequences, FiniteSets, TLC

\* ------------------------------------------------------------------ bounds
MaxConnects == 3   \* connection attempts explored
MaxFrames   == 2   \* frames received over all sessions
MaxIdle     == 2   \* consecutive message timeouts answered by a pong

\* --------------------------------------------------------------- constants
RECONNECT_DELAY == 30

\* ------------------------------------------------------- python-like values
PyNone   == [t |-> "None"]
PyStr(s) == [t |-> "str", v |-> s]

\* str.__bool__ / None.__bool__ as used by `not event_type`
Truthy(x) == x.t = "str" /\ Len(x.v) > 0

\* dict.get(key, default)
DictGet(d, k, default) == IF k \in DOMAIN d THEN d[k] ELSE default

UpperAlpha == <<"A","B","C","D","E","F","G","H","I","J","K","L","M",
                "N","O","P","Q","R","S","T","U","V","W","X","Y","Z">>
LowerAlpha == <<"a","b","c","d","e","f","g","h","i","j","k","l","m",
                "n","o","p","q","r","s","t","u","v","w","x","y","z">>

IndexIn(alpha, c) == CHOOSE i \in 1..Len(alpha) : alpha[i] = c

LowerChar(c) == IF \E i \in 1..26 : UpperAlpha[i] = c
                THEN LowerAlpha[IndexIn(UpperAlpha, c)] ELSE c
UpperChar(c) == IF \E i \in 1..26 : LowerAlpha[i] = c
                THEN UpperAlpha[IndexIn(LowerAlpha, c)] ELSE c

\* str.lower() / str.upper() on a string held as a sequence of characters
Lower(s) == [i \in 1..Len(s) |-> LowerChar(s[i])]
Upper(s) == [i \in 1..Len(s) |-> UpperChar(s[i])]

\* variant taking the first '_'-delimited segment, s.split('_')[0]
SplitFirst(s) ==
    IF \E i \in 1..Len(s) : s[i] = "_"
    THEN SubSeq(s, 1, (CHOOSE i \in 1..Len(s) :
                         s[i] = "_" /\ \A j \in 1..(i-1) : s[j] # "_") - 1)
    ELSE s

\* s.split('_')[-1] : the characters after the last '_' (all of s if none)
LastUnderscore(s) == IF \E i \in 1..Len(s) : s[i] = "_"
                     THEN CHOOSE i \in 1..Len(s) :
                            s[i] = "_" /\ \A j \in (i+1)..Len(s) : s[j] # "_"
                     ELSE 0
SplitLast(s) == SubSeq(s, LastUnderscore(s) + 1, Len(s))

\* ------------------------------------------------------------ collaborators
\* Constants.WS_AUTH_REQUEST_EVENT / WS_PUSHER_SUBSCRIBE_EVENT
WS_AUTH_REQUEST_EVENT     == "quoine:auth_request"
WS_PUSHER_SUBSCRIBE_EVENT == "pusher:subscribe"

\* Constants.WS_USER_ACCOUNTS_SUBSCRIPTION.format(quoted_currency=qc):
\* a template with the single named field quoted_currency
WS_USER_ACCOUNTS_SUBSCRIPTION(qc) ==
    <<"u","s","e","r","_","a","c","c","o","u","n","t","_">> \o qc

\* LiquidAPIOrderBookDataSource.get_active_exchange_markets(): the frame of
\* active markets, indexed by trading pair, column 'quoted_currency'
ActiveMarkets == [p \in {"ETH-USD", "BTC-USD", "LCX-BTC"} |->
                    IF p = "LCX-BTC" THEN <<"B","T","C">> ELSE <<"U","S","D">>]

\* LiquidOrderBook.diff_message_from_exchange(msg, timestamp, metadata)
diff_message_from_exchange(msg, timestamp, metadata) ==
    [type |-> "DIFF", content |-> msg, timestamp |-> timestamp,
     trading_pair |-> metadata.trading_pair]

\* -------------------------------------------------------------------- inputs
\* the trading_pairs lists a connector is constructed with
TradingPairLists == { <<>>,
                      <<"LCX-BTC", "ETH-USD">>,
                      <<"ETH-USD", "BTC-USD">>,
                      <<"ETH-USD", "XXX-YYY">> }

\* maxsize of the caller's asyncio.Queue (0: unbounded)
MaxSizes == {0, 1}

ChanEth == <<"u","s","e","r","_","e","x","e","c","u","t","i","o","n","s","_",
             "c","a","s","h","_","e","t","h","u","s","d">>
ChanBtc == <<"u","s","e","r","_","a","c","c","o","u","n","t","_","b","t","c">>

Updated   == <<"u","p","d","a","t","e","d">>
Heartbeat == <<"h","e","a","r","t","b","e","a","t">>

\* raw text frames the venue may push, by their decoded content
RawFrames == {
    [json |-> TRUE, body |-> [event |-> PyStr(Updated), channel |-> PyStr(ChanEth)]],
    [json |-> TRUE, body |-> [event |-> PyStr(Updated), channel |-> PyStr(ChanBtc)]],
    [json |-> TRUE, body |-> [event |-> PyStr(Updated)]],
    [json |-> TRUE, body |-> [event |-> PyStr(Heartbeat)]],
    [json |-> TRUE, body |-> [event |-> PyStr(<<>>), channel |-> PyStr(ChanEth)]],
    [json |-> TRUE, body |-> [channel |-> PyStr(ChanEth)]],
    [json |-> FALSE] }

VARIABLES
    pc,               \* the await the task is suspended at, or how it ended
    exc,              \* exception in flight while a close is awaited
    trading_pairs,    \* self._trading_pairs
    maxsize,          \* output.maxsize
    output,           \* the asyncio.Queue `output`
    sent,             \* texts sent on the current session's transport
    subIdx,           \* position of the subscribe loop (line 76)
    sessions,         \* the sessions whose generator awaits finalization,
                      \* then the latest session: close calls, exit, and
                      \* whether an awaited ws.close() has completed
    agenOpen,         \* sessions whose generator is suspended at its yield
    connects,         \* websockets.connect calls issued
    sleeps,           \* asyncio.sleep(30.0) calls issued
    delay,            \* seconds asked of the asyncio.sleep in progress
    failures,         \* transient failures seen so far
    lastFailure,      \* kind of the latest failure, until a session opens
    sleptSinceFailure,\* sleeps issued since that failure
    received,         \* number of frames yielded by _inner_messages
    lastFrame,        \* the latest frame yielded in this session, if any
    enqueued,         \* number of messages put on the output queue
    cancelDelivered,  \* the outer task has been cancelled
    idle              \* consecutive message timeouts answered by a pong

vars == <<pc, exc, trading_pairs, maxsize, output, sent, subIdx, sessions,
          agenOpen, connects, sleeps, delay, failures, lastFailure,
          sleptSinceFailure, received, lastFrame, enqueued, cancelDelivered,
          idle>>

\* the latest session opened
cur == Len(sessions)

Init ==
    /\ pc = "connect"
    /\ exc = "none"
    /\ trading_pairs \in TradingPairLists
    /\ maxsize \in MaxSizes
    /\ output = <<>>
    /\ sent = <<>>
    /\ subIdx = 0
    /\ sessions = <<>>
    /\ agenOpen = {}
    /\ connects = 1
    /\ sleeps = 0
    /\ delay = 0
    /\ failures = 0
    /\ lastFailure = "none"
    /\ sleptSinceFailure = 0
    /\ received = 0
    /\ lastFrame = <<>>
    /\ enqueued = 0
    /\ cancelDelivered = FALSE
    /\ idle = 0

\* ------------------------------------------------------- decisions in the code
\* variants of the except clauses: one that handles every exception alike, one
\* that lets protocol errors through
ExceptClauseSwallow(e) == "sleep"
ExceptClauseNarrow(e)  == IF e \in {"CancelledError", "ValueError"}
                          THEN "raise" ELSE "sleep"

\* listen_for_user_stream, the except clauses of the retry loop
ExceptClause(e) == IF e = "CancelledError" THEN "raise" ELSE "sleep"

\* variants of the generator's except clauses: without the TimeoutError
\* clause, and without the ConnectionClosed clause
InnerExceptNoTimeout(e) == IF e = "ConnectionClosed" THEN "return" ELSE "propagate"
InnerExceptNoClosed(e)  == IF e = "TimeoutError" THEN "return" ELSE "propagate"

\* _inner_messages, the except clauses around the receive loop
InnerExcept(e) == IF e \in {"TimeoutError", "ConnectionClosed"}
                  THEN "return" ELSE "propagate"

\* asyncio.Queue.full()
QueueNeverFull(q, size) == FALSE
QueueFull(q, size) == size > 0 /\ Len(q) >= size

\* the subscribe request built for one quoted currency
SubscribeRequest(quoted_currency) ==
    [event |-> WS_PUSHER_SUBSCRIBE_EVENT,
     data  |-> [channel |-> WS_USER_ACCOUNTS_SUBSCRIPTION(Lower(quoted_currency))]]

AuthRequest == [event |-> WS_AUTH_REQUEST_EVENT, data |-> "ws_auth_data"]

\* variant that pairs the quoted currencies with the pairs back to front
QuotedCurrenciesReversed(pairs) ==
    [i \in 1..Len(pairs) |-> ActiveMarkets[pairs[Len(pairs) + 1 - i]]]

\* output.put_nowait(msg) on a queue with room; a variant that puts in front
PutNowaitFront(q, msg) == <<msg>> \o q
PutNowait(q, msg) == Append(q, msg)

\* variant of the lookup that resolves only the first pair up front
KnownPairsFirst(pairs) == pairs = <<>> \/ pairs[1] \in DOMAIN ActiveMarkets

\* the list comprehension over active_markets_df.loc[...]
KnownPairs(pairs) == \A i \in 1..Len(pairs) : pairs[i] \in DOMAIN ActiveMarkets
QuotedCurrencies(pairs) == [i \in 1..Len(pairs) |-> ActiveMarkets[pairs[i]]]

\* variants of the loop body: one that raises only when the event is None,
\* one that raises on every event other than 'updated'
RouteNoneOnly(raw, now) ==
    IF ~raw.json THEN [act |-> "raise", e |-> "ValueError"]
    ELSE LET diff_msg   == raw.body
             event_type == DictGet(diff_msg, "event", PyNone)
         IN IF event_type = PyStr(Updated)
            THEN LET channel == DictGet(diff_msg, "channel", PyNone)
                 IN IF channel = PyNone
                    THEN [act |-> "raise", e |-> "AttributeError"]
                    ELSE [act |-> "put",
                          msg |-> diff_message_from_exchange(diff_msg, now,
                                    [trading_pair |-> Upper(SplitLast(channel.v))])]
            ELSE IF event_type = PyNone
                 THEN [act |-> "raise", e |-> "ValueError"]
                 ELSE [act |-> "ignore"]
RouteStrict(raw, now) ==
    IF ~raw.json THEN [act |-> "raise", e |-> "ValueError"]
    ELSE LET diff_msg   == raw.body
             event_type == DictGet(diff_msg, "event", PyNone)
         IN IF event_type = PyStr(Updated)
            THEN LET channel == DictGet(diff_msg, "channel", PyNone)
                 IN IF channel = PyNone
                    THEN [act |-> "raise", e |-> "AttributeError"]
                    ELSE [act |-> "put",
                          msg |-> diff_message_from_exchange(diff_msg, now,
                                    [trading_pair |-> Upper(SplitLast(channel.v))])]
            ELSE [act |-> "raise", e |-> "ValueError"]

\* the body of the `async for` for one raw frame received at time `now`
\* (time.time() is read as the number of frames received so far)
Route(raw, now) ==
    IF ~raw.json THEN [act |-> "raise", e |-> "ValueError"]
    ELSE LET diff_msg   == raw.body
             event_type == DictGet(diff_msg, "event", PyNone)
         IN IF event_type = PyStr(Updated)
            THEN LET channel == DictGet(diff_msg, "channel", PyNone)
                 IN IF channel = PyNone
                    THEN [act |-> "raise", e |-> "AttributeError"]
                    ELSE [act |-> "put",
                          msg |-> diff_message_from_exchange(diff_msg, now,
                                    [trading_pair |-> Upper(SplitLast(channel.v))])]
            ELSE IF ~Truthy(event_type)
                 THEN [act |-> "raise", e |-> "ValueError"]
                 ELSE [act |-> "ignore"]

\* ------------------------------------------------------------- bookkeeping
Failure(kind)  == /\ failures' = failures + 1
                  /\ lastFailure' = kind
NoFailure      == UNCHANGED <<failures, lastFailure>>

\* ws.close() is called on the current session's transport
CloseCur(kind) ==
    sessions' = [sessions EXCEPT ![cur] =
                    [@ EXCEPT !.closes = @ + 1,
                              !.exit = IF @ = "open" THEN kind ELSE @]]

\* variant in which ws.close() is called but its completion is not awaited
CloseNotAwaited(ss) == ss

\* an awaited ws.close() on the current session's transport completes
CloseAwaited(ss) == [ss EXCEPT ![cur].closed = TRUE]

\* variant of the except clauses that retries without the sleep
HandleNoSleep(e, failed) ==
    /\ pc' = IF ExceptClause(e) = "sleep" THEN "connect"
             ELSE IF e = "CancelledError" THEN "cancelled" ELSE "crashed"
    /\ sleptSinceFailure' = IF failed THEN 0 ELSE sleptSinceFailure
    /\ UNCHANGED <<sleeps, delay>>

\* exception e leaves the try body of the retry loop (lines 102-107)
Handle(e, failed) ==
    IF ExceptClause(e) = "sleep"
    THEN /\ pc' = "sleep"
         /\ sleeps' = sleeps + 1
         /\ delay' = RECONNECT_DELAY
         /\ sleptSinceFailure' = (IF failed THEN 0 ELSE sleptSinceFailure) + 1
    ELSE /\ pc' = IF e = "CancelledError" THEN "cancelled" ELSE "crashed"
         /\ sleptSinceFailure' = IF failed THEN 0 ELSE sleptSinceFailure
         /\ UNCHANGED <<sleeps, delay>>

\* variant without the `while True`: the coroutine returns after one pass
ReconnectStops ==
    /\ connects < MaxConnects
    /\ pc' = "returned"
    /\ UNCHANGED connects

\* the `while True` comes round to websockets.connect again
Reconnect ==
    /\ connects < MaxConnects
    /\ pc' = "connect"
    /\ connects' = connects + 1

\* variant without the scoped connection context: nothing closes the transport
RaiseInWithNoClose(e, kind) ==
    /\ pc' = "ctx_close"
    /\ exc' = e
    /\ sessions' = [sessions EXCEPT ![cur].exit = IF @ = "open" THEN kind ELSE @]

\* exception e raised in the `async with` body outside the generator:
\* __aexit__ calls ws.close()
RaiseInWith(e, kind) ==
    /\ pc' = "ctx_close"
    /\ exc' = e
    /\ CloseCur(kind)

\* variant of the generator's exit without the finally block
RaiseInGeneratorNoFinally(e, kind) ==
    /\ pc' = "gen_close"
    /\ exc' = IF InnerExcept(e) = "return" THEN "none" ELSE e
    /\ sessions' = [sessions EXCEPT ![cur].exit = kind]

\* exception e raised at an await of _inner_messages: its except clauses,
\* then the finally block calls ws.close()
RaiseInGenerator(e, kind) ==
    /\ pc' = "gen_close"
    /\ exc' = IF InnerExcept(e) = "return" THEN "none" ELSE e
    /\ CloseCur(kind)

\* ------------------------------------------------------------------ actions
\* the records of the sessions whose generator is still suspended, in order
PendingIdx == SelectSeq([i \in 1..Len(sessions) |-> i], LAMBDA i : i \in agenOpen)
Pending    == [k \in 1..Len(PendingIdx) |-> sessions[PendingIdx[k]]]

\* websockets.connect succeeds; the auth request is built and its send awaited.
\* The record of an earlier session is kept only while its generator is still
\* suspended: nothing can call close on its transport once it has been finalized.
ConnectOk ==
    /\ pc = "connect"
    /\ pc' = "auth_send"
    /\ sessions' = Append(Pending, [closes |-> 0, exit |-> "open", looped |-> FALSE,
                                    closed |-> FALSE])
    /\ agenOpen' = 1..Len(Pending)
    /\ sent' = <<>>
    /\ subIdx' = 0
    /\ idle' = 0
    /\ lastFrame' = <<>>
    /\ lastFailure' = "none"
    /\ sleptSinceFailure' = 0
    /\ UNCHANGED <<exc, trading_pairs, maxsize, output, connects, sleeps, delay,
                   failures, received, enqueued, cancelDelivered>>

\* websockets.connect raises
ConnectFail ==
    /\ pc = "connect"
    /\ Failure("connect_error")
    /\ Handle("OSError", TRUE)
    /\ UNCHANGED <<exc, trading_pairs, maxsize, output, sent, subIdx, sessions,
                   agenOpen, connects, received, lastFrame, enqueued, cancelDelivered, idle>>

\* variant in which no auth request goes out before the market lookup
AuthSendOkSkip ==
    /\ pc = "auth_send"
    /\ pc' = "markets"
    /\ UNCHANGED <<exc, trading_pairs, maxsize, output, sent, subIdx, sessions,
                   agenOpen, connects, sleeps, delay, failures, lastFailure,
                   sleptSinceFailure, received, lastFrame, enqueued,
                   cancelDelivered, idle>>

\* ws.send(auth_request) completes; get_active_exchange_markets is awaited
AuthSendOk ==
    /\ pc = "auth_send"
    /\ sent' = Append(sent, AuthRequest)
    /\ pc' = "markets"
    /\ UNCHANGED <<exc, trading_pairs, maxsize, output, subIdx, sessions,
                   agenOpen, connects, sleeps, delay, failures, lastFailure,
                   sleptSinceFailure, received, lastFrame, enqueued, cancelDelivered, idle>>

\* ws.send(auth_request) raises
AuthSendFail ==
    /\ pc = "auth_send"
    /\ RaiseInWith("ConnectionClosed", "setup_error")
    /\ Failure("send_error")
    /\ sleptSinceFailure' = 0
    /\ UNCHANGED <<trading_pairs, maxsize, output, sent, subIdx, agenOpen,
                   connects, sleeps, delay, received, lastFrame, enqueued,
                   cancelDelivered, idle>>

\* get_active_exchange_markets returns; the quoted currencies are looked up and
\* the first subscribe request is sent (or the generator is entered)
MarketsOk ==
    /\ pc = "markets"
    /\ IF ~KnownPairs(trading_pairs)
       THEN /\ RaiseInWith("KeyError", "setup_error")
            /\ Failure("lookup_error")
            /\ sleptSinceFailure' = 0
            /\ UNCHANGED <<subIdx>>
       ELSE /\ IF Len(trading_pairs) = 0
               THEN /\ pc' = "recv"
                    /\ sessions' = [sessions EXCEPT ![cur].looped = TRUE]
                    /\ subIdx' = 0
               ELSE /\ pc' = "sub_send"
                    /\ subIdx' = 1
                    /\ UNCHANGED sessions
            /\ NoFailure
            /\ UNCHANGED <<exc, sleptSinceFailure>>
    /\ UNCHANGED <<trading_pairs, maxsize, output, sent, agenOpen, connects,
                   sleeps, delay, received, lastFrame, enqueued, cancelDelivered, idle>>

\* get_active_exchange_markets raises
MarketsFail ==
    /\ pc = "markets"
    /\ RaiseInWith("IOError", "setup_error")
    /\ Failure("lookup_error")
    /\ sleptSinceFailure' = 0
    /\ UNCHANGED <<trading_pairs, maxsize, output, sent, subIdx, agenOpen,
                   connects, sleeps, delay, received, lastFrame, enqueued,
                   cancelDelivered, idle>>

\* ws.send(subscribe_request) completes; the next one is sent, or the
\* generator is entered and ws.recv() awaited
SubSendOk ==
    /\ pc = "sub_send"
    /\ sent' = Append(sent, SubscribeRequest(QuotedCurrencies(trading_pairs)[subIdx]))
    /\ IF subIdx < Len(trading_pairs)
       THEN /\ subIdx' = subIdx + 1
            /\ UNCHANGED <<pc, sessions>>
       ELSE /\ pc' = "recv"
            /\ sessions' = [sessions EXCEPT ![cur].looped = TRUE]
            /\ UNCHANGED subIdx
    /\ UNCHANGED <<exc, trading_pairs, maxsize, output, agenOpen, connects,
                   sleeps, delay, failures, lastFailure, sleptSinceFailure,
                   received, lastFrame, enqueued, cancelDelivered, idle>>

\* ws.send(subscribe_request) raises
SubSendFail ==
    /\ pc = "sub_send"
    /\ RaiseInWith("ConnectionClosed", "setup_error")
    /\ Failure("send_error")
    /\ sleptSinceFailure' = 0
    /\ UNCHANGED <<trading_pairs, maxsize, output, sent, subIdx, agenOpen,
                   connects, sleeps, delay, received, lastFrame, enqueued,
                   cancelDelivered, idle>>

\* ws.recv() delivers a frame: it is yielded, the loop body runs on it, and
\* the generator is resumed into the next ws.recv()
RecvFrame ==
    /\ pc = "recv"
    /\ received < MaxFrames
    /\ \E raw \in RawFrames :
         LET r == Route(raw, received + 1) IN
         /\ received' = received + 1
         /\ lastFrame' = <<raw>>
         /\ idle' = 0
         /\ CASE r.act = "ignore" ->
                   /\ NoFailure
                   /\ UNCHANGED <<pc, exc, output, enqueued, sessions, agenOpen,
                                  sleptSinceFailure>>
              [] r.act = "put" /\ ~QueueFull(output, maxsize) ->
                   /\ output' = PutNowait(output, r.msg)
                   /\ enqueued' = enqueued + 1
                   /\ NoFailure
                   /\ UNCHANGED <<pc, exc, sessions, agenOpen, sleptSinceFailure>>
              [] r.act = "put" /\ QueueFull(output, maxsize) ->
                   /\ RaiseInWith("QueueFull", "error")
                   /\ agenOpen' = agenOpen \cup {cur}
                   /\ Failure("queue_full")
                   /\ sleptSinceFailure' = 0
                   /\ UNCHANGED <<output, enqueued>>
              [] r.act = "raise" ->
                   /\ RaiseInWith(r.e, "error")
                   /\ agenOpen' = agenOpen \cup {cur}
                   /\ Failure("frame_error")
                   /\ sleptSinceFailure' = 0
                   /\ UNCHANGED <<output, enqueued>>
    /\ UNCHANGED <<trading_pairs, maxsize, sent, subIdx, connects,
                   sleeps, delay, cancelDelivered>>

\* wait_for(ws.recv(), MESSAGE_TIMEOUT) times out; ws.ping() is awaited
RecvTimeout ==
    /\ pc = "recv"
    /\ idle < MaxIdle
    /\ pc' = "ping"
    /\ UNCHANGED <<exc, trading_pairs, maxsize, output, sent, subIdx, sessions,
                   agenOpen, connects, sleeps, delay, failures, lastFailure,
                   sleptSinceFailure, received, lastFrame, enqueued, cancelDelivered, idle>>

\* ws.recv() raises ConnectionClosed
RecvClosed ==
    /\ pc = "recv"
    /\ RaiseInGenerator("ConnectionClosed", "closed")
    /\ Failure("closed")
    /\ sleptSinceFailure' = 0
    /\ UNCHANGED <<trading_pairs, maxsize, output, sent, subIdx, agenOpen,
                   connects, sleeps, delay, received, lastFrame, enqueued,
                   cancelDelivered, idle>>

\* ws.ping() returns the pong waiter; wait_for(pong_waiter, PING_TIMEOUT)
PingSent ==
    /\ pc = "ping"
    /\ pc' = "pong"
    /\ UNCHANGED <<exc, trading_pairs, maxsize, output, sent, subIdx, sessions,
                   agenOpen, connects, sleeps, delay, failures, lastFailure,
                   sleptSinceFailure, received, lastFrame, enqueued, cancelDelivered, idle>>

\* variant in which the ConnectionClosed of ws.ping() leaves the generator
PingClosedEscapes ==
    /\ pc = "ping"
    /\ pc' = "gen_close"
    /\ exc' = "ConnectionClosed"
    /\ CloseCur("closed")
    /\ Failure("closed")
    /\ sleptSinceFailure' = 0
    /\ UNCHANGED <<trading_pairs, maxsize, output, sent, subIdx, agenOpen,
                   connects, sleeps, delay, received, lastFrame, enqueued,
                   cancelDelivered, idle>>

\* ws.ping() raises ConnectionClosed
PingClosed ==
    /\ pc = "ping"
    /\ RaiseInGenerator("ConnectionClosed", "closed")
    /\ Failure("closed")
    /\ sleptSinceFailure' = 0
    /\ UNCHANGED <<trading_pairs, maxsize, output, sent, subIdx, agenOpen,
                   connects, sleeps, delay, received, lastFrame, enqueued,
                   cancelDelivered, idle>>

\* variant in which an answered ping still ends the frame sequence
PongOkEnds ==
    /\ pc = "pong"
    /\ pc' = "gen_close"
    /\ idle' = idle + 1
    /\ CloseCur("closed")
    /\ UNCHANGED <<exc, trading_pairs, maxsize, output, sent, subIdx,
                   agenOpen, connects, sleeps, delay, failures, lastFailure,
                   sleptSinceFailure, received, lastFrame, enqueued, cancelDelivered>>

\* the pong arrives within PING_TIMEOUT: back to ws.recv()
PongOk ==
    /\ pc = "pong"
    /\ pc' = "recv"
    /\ idle' = idle + 1
    /\ UNCHANGED <<exc, trading_pairs, maxsize, output, sent, subIdx, sessions,
                   agenOpen, connects, sleeps, delay, failures, lastFailure,
                   sleptSinceFailure, received, lastFrame, enqueued, cancelDelivered>>

\* no pong within PING_TIMEOUT
PongTimeout ==
    /\ pc = "pong"
    /\ RaiseInGenerator("TimeoutError", "pong_timeout")
    /\ Failure("pong_timeout")
    /\ sleptSinceFailure' = 0
    /\ UNCHANGED <<trading_pairs, maxsize, output, sent, subIdx, agenOpen,
                   connects, sleeps, delay, received, lastFrame, enqueued,
                   cancelDelivered, idle>>

\* the transport closes while the pong is awaited
PongClosed ==
    /\ pc = "pong"
    /\ RaiseInGenerator("ConnectionClosed", "closed")
    /\ Failure("closed")
    /\ sleptSinceFailure' = 0
    /\ UNCHANGED <<trading_pairs, maxsize, output, sent, subIdx, agenOpen,
                   connects, sleeps, delay, received, lastFrame, enqueued,
                   cancelDelivered, idle>>

\* the ws.close() of the generator's finally block completes: the generator
\* ends (or re-raises), the `async with` is left and __aexit__ calls ws.close()
GenCloseDone ==
    /\ pc = "gen_close"
    /\ pc' = "ctx_close"
    /\ sessions' = [CloseAwaited(sessions) EXCEPT ![cur].closes = @ + 1]
    /\ UNCHANGED <<exc, trading_pairs, maxsize, output, sent, subIdx, agenOpen,
                   connects, sleeps, delay, failures, lastFailure,
                   sleptSinceFailure, received, lastFrame, enqueued, cancelDelivered, idle>>

\* the ws.close() of __aexit__ completes: the retry loop goes round, or the
\* exception in flight reaches the except clauses
CtxCloseDone ==
    /\ pc = "ctx_close"
    /\ exc' = "none"
    /\ IF exc = "none"
       THEN /\ Reconnect
            /\ UNCHANGED <<sleeps, delay, sleptSinceFailure>>
       ELSE /\ Handle(exc, FALSE)
            /\ UNCHANGED connects
    /\ sessions' = CloseAwaited(sessions)
    /\ UNCHANGED <<trading_pairs, maxsize, output, sent, subIdx,
                   agenOpen, failures, lastFailure, received, lastFrame, enqueued,
                   cancelDelivered, idle>>

\* asyncio.sleep(30.0) completes
SleepDone ==
    /\ pc = "sleep"
    /\ Reconnect
    /\ delay' = 0
    /\ UNCHANGED <<sleeps, exc, trading_pairs, maxsize, output, sent, subIdx, sessions,
                   agenOpen, failures, lastFailure,
                   sleptSinceFailure, received, lastFrame, enqueued, cancelDelivered, idle>>

\* the event loop finalizes a generator left suspended at its yield: aclose()
\* throws GeneratorExit into it and its finally block calls ws.close()
AsyncGenFinalize ==
    /\ \E s \in agenOpen :
         /\ agenOpen' = agenOpen \ {s}
         /\ sessions' = [sessions EXCEPT ![s].closes = @ + 1]
    /\ UNCHANGED <<pc, exc, trading_pairs, maxsize, output, sent, subIdx,
                   connects, sleeps, delay, failures, lastFailure,
                   sleptSinceFailure, received, lastFrame, enqueued, cancelDelivered, idle>>

\* the consumer takes the oldest message off the output queue
ConsumerGet ==
    /\ output # <<>>
    /\ output' = Tail(output)
    /\ UNCHANGED <<pc, exc, trading_pairs, maxsize, sent, subIdx, sessions,
                   agenOpen, connects, sleeps, delay, failures, lastFailure,
                   sleptSinceFailure, received, lastFrame, enqueued, cancelDelivered, idle>>

\* ---------------------------------------------------------------- cancellation
\* task.cancel() while websockets.connect is awaited
CancelAtConnect ==
    /\ pc = "connect"
    /\ ~cancelDelivered
    /\ cancelDelivered' = TRUE
    /\ Handle("CancelledError", FALSE)
    /\ UNCHANGED <<exc, trading_pairs, maxsize, output, sent, subIdx, sessions,
                   agenOpen, connects, failures, lastFailure, received, lastFrame,
                   enqueued, idle>>

\* task.cancel() while a send or the market lookup is awaited
CancelInSetup ==
    /\ pc \in {"auth_send", "markets", "sub_send"}
    /\ ~cancelDelivered
    /\ cancelDelivered' = TRUE
    /\ RaiseInWith("CancelledError", "cancel")
    /\ UNCHANGED <<trading_pairs, maxsize, output, sent, subIdx, agenOpen,
                   connects, sleeps, delay, failures, lastFailure,
                   sleptSinceFailure, received, lastFrame, enqueued, idle>>

\* task.cancel() while _inner_messages awaits a frame, the ping or the pong
CancelInGenerator ==
    /\ pc \in {"recv", "ping", "pong"}
    /\ ~cancelDelivered
    /\ cancelDelivered' = TRUE
    /\ RaiseInGenerator("CancelledError", "cancel")
    /\ UNCHANGED <<trading_pairs, maxsize, output, sent, subIdx, agenOpen,
                   connects, sleeps, delay, failures, lastFailure,
                   sleptSinceFailure, received, lastFrame, enqueued, idle>>

\* task.cancel() while a ws.close() is awaited: in the generator's finally the
\* CancelledError leaves the generator and __aexit__ closes; in __aexit__ it
\* replaces the exception in flight and reaches the except clauses
CancelInClose ==
    /\ pc \in {"gen_close", "ctx_close"}
    /\ ~cancelDelivered
    /\ cancelDelivered' = TRUE
    /\ IF pc = "gen_close"
       THEN /\ RaiseInWith("CancelledError", "cancel")
            /\ UNCHANGED <<sleeps, delay, sleptSinceFailure>>
       ELSE /\ Handle("CancelledError", FALSE)
            /\ exc' = "none"
            /\ UNCHANGED sessions
    /\ UNCHANGED <<trading_pairs, maxsize, output, sent, subIdx, agenOpen,
                   connects, failures, lastFailure, received, lastFrame, enqueued, idle>>

\* task.cancel() during asyncio.sleep(30.0): raised inside the except block,
\* so it leaves the coroutine
CancelInSleep ==
    /\ pc = "sleep"
    /\ ~cancelDelivered
    /\ cancelDelivered' = TRUE
    /\ pc' = "cancelled"
    /\ delay' = 0
    /\ UNCHANGED <<sleeps, exc, trading_pairs, maxsize, output, sent, subIdx, sessions,
                   agenOpen, connects, failures, lastFailure,
                   sleptSinceFailure, received, lastFrame, enqueued, idle>>

Next ==
    \/ ConnectOk \/ ConnectFail
    \/ AuthSendOk \/ AuthSendFail
    \/ MarketsOk \/ MarketsFail
    \/ SubSendOk \/ SubSendFail
    \/ RecvFrame \/ RecvTimeout \/ RecvClosed
    \/ PingSent \/ PingClosed
    \/ PongOk \/ PongTimeout \/ PongClosed
    \/ GenCloseDone \/ CtxCloseDone \/ SleepDone
    \/ AsyncGenFinalize \/ ConsumerGet
    \/ CancelAtConnect \/ CancelInSetup \/ CancelInGenerator
    \/ CancelInClose \/ CancelInSleep

Spec == Init /\ [][Next]_vars

\* the event loop resumes the task once an awaited ws.close() or
\* asyncio.sleep(30.0) is done, and both complete in bounded time
FairSpec ==
    /\ Spec
    /\ WF_vars(GenCloseDone)
    /\ WF_vars(CtxCloseDone)
    /\ WF_vars(SleepDone)

TypeOK ==
    /\ pc \in {"connect", "auth_send", "markets", "sub_send", "recv", "ping",
               "pong", "gen_close", "ctx_close", "sleep", "cancelled",
               "crashed", "returned"}
    /\ connects \in 1..MaxConnects
    /\ received \in 0..MaxFrames

\* ===================================================================== claims
\* the scoped connection context of session s has been left
SessionOver(s) == s < cur \/ pc \in {"connect", "sleep", "cancelled", "crashed"}

C2_CancelPropagates ==
    [][cancelDelivered' =>
          /\ sleeps' = sleeps
          /\ connects' = connects
          /\ sent' = sent
          /\ enqueued' = enqueued
          /\ pc' \in {"gen_close", "ctx_close", "cancelled"}
          /\ pc' # "cancelled" => exc' = "CancelledError"]_vars

C2_Witness ==
    /\ pc = "cancelled"
    /\ cancelDelivered
    /\ sessions # <<>>
    /\ sessions[cur].exit = "cancel"
    /\ sessions[cur].looped

\* C3 (as stated): whatever the exit path of the receive loop, close is
\* invoked on the session's transport exactly once.
C3_ClosedExactlyOnce ==
    \A s \in 1..Len(sessions) :
        (sessions[s].looped /\ SessionOver(s)) => sessions[s].closes = 1

\* C3 (amended): close is invoked at least once and at most twice; exactly
\* twice when the receive loop ends inside the generator (pong timeout,
\* transport closed, cancellation during a wait), and once plus the
\* finalization of the suspended generator when the loop body raises.
C3_ClosedOnceOrTwice ==
    \A s \in 1..Len(sessions) :
        /\ sessions[s].closes <= 2
        /\ SessionOver(s) =>
              /\ sessions[s].closes >= 1
              /\ sessions[s].looped =>
                    sessions[s].closes = IF s \in agenOpen THEN 1 ELSE 2
              /\ (sessions[s].looped /\ sessions[s].exit \in {"pong_timeout", "closed", "cancel"})
                    => sessions[s].closes = 2

C3_Witness ==
    \E s \in 1..Len(sessions) :
        /\ SessionOver(s)
        /\ sessions[s].looped
        /\ sessions[s].exit = "closed"
        /\ sessions[s].closes = 2

GotFrame      == received' = received + 1
NewFrame      == lastFrame'[1]
EventMissing(raw) == raw.json /\ ("event" \notin DOMAIN raw.body
                                  \/ raw.body.event = PyStr(<<>>))
EventOther(raw)   == /\ raw.json
                     /\ "event" \in DOMAIN raw.body
                     /\ raw.body.event.t = "str"
                     /\ raw.body.event.v # <<>>
                     /\ raw.body.event.v # Updated

\* C6: a frame whose event is absent or empty is never enqueued; it raises
\* ValueError out of the session, the transport is closed, and the next
\* connect comes after one 30s sleep.
C6_MissingEventRestarts ==
    /\ [][(GotFrame /\ EventMissing(NewFrame)) =>
            /\ enqueued' = enqueued
            /\ output' = output
            /\ pc' = "ctx_close"
            /\ exc' = "ValueError"
            /\ sessions'[cur].closes = sessions[cur].closes + 1]_vars
    /\ [][(pc = "ctx_close" /\ exc = "ValueError" /\ pc' # pc) =>
            \/ /\ pc' = "sleep"
               /\ sleeps' = sleeps + 1
               /\ delay' = RECONNECT_DELAY
               /\ sleptSinceFailure' = 1
            \/ /\ pc' = "cancelled"
               /\ cancelDelivered']_vars
    /\ []((lastFailure = "frame_error" /\ pc = "connect") => sleptSinceFailure = 1)

C6_Witness ==
    /\ pc = "connect"
    /\ lastFailure = "frame_error"
    /\ lastFrame # <<>>
    /\ EventMissing(lastFrame[1])
    /\ "event" \notin DOMAIN lastFrame[1].body
    /\ sleptSinceFailure = 1
    /\ sessions[cur].closes >= 1

\* C7: a frame whose event is non-empty and not 'updated' changes neither the
\* output queue nor the connection: still waiting for a frame on the same open
\* session, nothing sent, no close, reconnect or sleep.
C7_OtherEventIgnored ==
    [][(GotFrame /\ EventOther(NewFrame)) =>
          /\ pc' = "recv"
          /\ UNCHANGED <<output, enqueued, sessions, sent, exc, connects,
                         sleeps, failures, agenOpen>>]_vars

C7_Witness ==
    /\ pc = "recv"
    /\ lastFrame # <<>>
    /\ EventOther(lastFrame[1])
    /\ sessions[cur].closes = 0
    /\ enqueued = 0

\* the subscribe requests sent on the current session, and those due
Subs == SelectSeq(sent, LAMBDA m : m.event = WS_PUSHER_SUBSCRIBE_EVENT)
ExpectedSubs ==
    [i \in 1..Len(trading_pairs) |-> SubscribeRequest(ActiveMarkets[trading_pairs[i]])]

\* C8: when every configured pair resolves, a session sends one subscribe
\* request per pair in the order of the list: what has been sent is always a
\* prefix of that list, and all of it once the receive loop is entered.
C8_OneSubscribePerPair ==
    (KnownPairs(trading_pairs) /\ sessions # <<>>) =>
        /\ Len(Subs) <= Len(trading_pairs)
        /\ Subs = SubSeq(ExpectedSubs, 1, Len(Subs))
        /\ sessions[cur].looped => Subs = ExpectedSubs
        /\ Len(sent) > 0 => sent[1] = AuthRequest

C8_Witness ==
    /\ pc = "recv"
    /\ connects = 2
    /\ Len(Subs) = 2
    /\ Subs[1] # Subs[2]
    /\ trading_pairs = <<"LCX-BTC", "ETH-USD">>

\* C9: the task never returns and never ends with an error other than the
\* cancellation it was sent.
C9_OnlyCancellationEnds ==
    /\ pc \notin {"returned", "crashed"}
    /\ pc = "cancelled" => cancelDelivered

C9_Witness ==
    /\ pc = "sleep"
    /\ failures = 2
    /\ sleeps = 2
    /\ delay = RECONNECT_DELAY
    /\ ~cancelDelivered

\* C10: the queue holds, in receipt order and without duplicates, messages of
\* frames received with event 'updated' (each tagged with its receipt index);
\* the connector only appends, one message of the frame just received.
InOrder(q) ==
    /\ \A i \in 1..Len(q) :
          /\ q[i].timestamp \in 1..received
          /\ q[i].content.event = PyStr(Updated)
    /\ \A i, j \in 1..Len(q) : i < j => q[i].timestamp < q[j].timestamp

C10_QueueInFrameOrder ==
    /\ [](InOrder(output) /\ Len(output) <= enqueued /\ enqueued <= received)
    /\ [][\/ output' = output
          \/ (output # <<>> /\ output' = Tail(output))
          \/ /\ Len(output') = Len(output) + 1
             /\ SubSeq(output', 1, Len(output)) = output
             /\ GotFrame
             /\ NewFrame.json
             /\ output'[Len(output')].content = NewFrame.body
             /\ output'[Len(output')].timestamp = received'
             /\ enqueued' = enqueued + 1]_vars
    /\ [][enqueued' # enqueued => Len(output') = Len(output) + 1]_vars

C10_Witness ==
    /\ Len(output) = 2
    /\ output[1].trading_pair # output[2].trading_pair
    /\ connects = 2

\* C11: at most one session is live: while a connect is awaited every
\* transport opened before has been closed, and a session that has a
\* successor was closed before the successor was opened.
C11_OneLiveSession ==
    /\ pc = "connect" =>
          \A s \in 1..Len(sessions) :
              sessions[s].closed /\ sessions[s].closes >= 1
    /\ \A s \in 1..Len(sessions) :
          s < cur => (sessions[s].closed /\ sessions[s].closes >= 1)

C11_Witness ==
    /\ Len(sessions) = 2
    /\ pc = "recv"
    /\ sessions[1].closed
    /\ ~sessions[2].closed
    /\ sessions[2].closes = 0

\* the failures that reach the except clauses as an exception
RaisedKinds == {"connect_error", "send_error", "lookup_error", "frame_error",
                "queue_full"}

\* C12: an exception other than cancellation raised while connecting,
\* sending, resolving quote currencies, decoding or enqueuing leads to exactly
\* one 30s sleep and then a fresh connect; never a connect without the sleep,
\* never the end of the task.
C12_RaisedFailureSleepsOnce ==
    /\ [](lastFailure \in RaisedKinds =>
            /\ pc \in {"ctx_close", "sleep", "connect", "cancelled"}
            /\ pc = "ctx_close" => sleptSinceFailure = 0
            /\ pc = "sleep" => (sleptSinceFailure = 1 /\ delay = RECONNECT_DELAY)
            /\ pc = "connect" => sleptSinceFailure = 1)
    /\ [][(pc = "sleep" /\ pc' # "sleep") =>
            \/ (pc' = "connect" /\ connects' = connects + 1)
            \/ (pc' = "cancelled" /\ cancelDelivered')]_vars

C12_Witness ==
    /\ pc = "connect"
    /\ lastFailure = "send_error"
    /\ sleptSinceFailure = 1
    /\ connects = 3
    /\ sleeps = 2

\* C13: a ConnectionClosed during the frame wait, the ping or the pong wait
\* ends the frame sequence normally: no exception in flight, no further frame.
C13_ClosedEndsSequence ==
    /\ [][(failures' = failures + 1 /\ lastFailure' = "closed") =>
            /\ pc \in {"recv", "ping", "pong"}
            /\ pc' = "gen_close"
            /\ exc' = "none"
            /\ received' = received
            /\ output' = output]_vars
    /\ []((lastFailure = "closed" /\ ~cancelDelivered) =>
            (exc = "none" /\ pc \in {"gen_close", "ctx_close", "connect"}))
    /\ [][lastFailure = "closed" => received' = received]_vars

C13_Witness ==
    /\ pc = "ctx_close"
    /\ lastFailure = "closed"
    /\ exc = "none"
    /\ sessions[cur].closes = 2
    /\ idle = 1

ETHUSD == <<"E","T","H","U","S","D">>
BTC    == <<"B","T","C">>
PairOfChannel(ch) == IF ch = ChanEth THEN ETHUSD ELSE BTC
UpdatedWithChannel(raw) ==
    /\ raw.json
    /\ "event" \in DOMAIN raw.body
    /\ raw.body.event = PyStr(Updated)
    /\ "channel" \in DOMAIN raw.body

\* C14 (as stated): every 'updated' frame with a channel enqueues exactly one
\* event, whose trading_pair is the last '_' segment of the channel in upper
\* case.
C14_UpdatedAlwaysEnqueued ==
    [][(GotFrame /\ UpdatedWithChannel(NewFrame)) =>
          /\ Len(output') = Len(output) + 1
          /\ output'[Len(output')].trading_pair = PairOfChannel(NewFrame.body.channel.v)]_vars

\* C14 (amended): the same, provided the output queue is not full when the
\* frame is processed; the trading_pair of every queued event is the last '_'
\* segment of its channel in upper case.
C14_PairFromChannel ==
    /\ [][(GotFrame /\ UpdatedWithChannel(NewFrame)
           /\ ~(maxsize > 0 /\ Len(output) >= maxsize)) =>
            /\ Len(output') = Len(output) + 1
            /\ SubSeq(output', 1, Len(output)) = output
            /\ enqueued' = enqueued + 1
            /\ output'[Len(output')].trading_pair = PairOfChannel(NewFrame.body.channel.v)]_vars
    /\ [](\A i \in 1..Len(output) :
            output[i].trading_pair = PairOfChannel(output[i].content.channel.v))

C14_Witness ==
    /\ Len(output) = 1
    /\ output[1].content.channel = PyStr(ChanEth)
    /\ output[1].trading_pair = ETHUSD
    /\ enqueued = 1

AuthCount == Len(SelectSeq(sent, LAMBDA m : m.event = WS_AUTH_REQUEST_EVENT))

\* C15: in every session, also after a reconnect, one auth request goes out
\* and it is the first text sent; the subscribes follow with no receive in
\* between, and a frame is received only after all of them have been sent.
C15_AuthFirstThenSubscribes ==
    /\ [](/\ AuthCount <= 1
          /\ sent # <<>> => sent[1] = AuthRequest
          /\ pc \in {"markets", "sub_send", "recv", "ping", "pong"} => AuthCount = 1
          /\ pc \in {"auth_send", "markets", "sub_send"} => lastFrame = <<>>
          /\ pc \in {"recv", "ping", "pong"} => Len(sent) = 1 + Len(trading_pairs)
          /\ lastFrame # <<>> => Len(sent) = 1 + Len(trading_pairs))
    /\ [][GotFrame => (sent' = sent /\ AuthCount = 1
                       /\ Len(Subs) = Len(trading_pairs))]_vars
    /\ [][(pc \in {"auth_send", "markets", "sub_send"}) => received' = received]_vars

C15_Witness ==
    /\ connects = 2
    /\ pc = "recv"
    /\ lastFrame # <<>>
    /\ Len(sent) = 3
    /\ AuthCount = 1

\* C16: once a session has terminated or a failure has been raised, and the
\* task is not cancelled, a new connection attempt follows (for every attempt
\* below the bound on attempts explored).
C16_TerminationLeadsToConnect ==
    \A n \in 1..(MaxConnects - 1) :
        (pc \in {"gen_close", "ctx_close", "sleep"} /\ connects = n /\ ~cancelDelivered)
            ~> ((pc = "connect" /\ connects = n + 1) \/ cancelDelivered)

C16_Witness ==
    /\ pc = "connect"
    /\ connects = 3
    /\ ~cancelDelivered
    /\ lastFailure = "pong_timeout"
    /\ sleeps = 1

\* C17: the subscribe requests sent for two distinct trading pairs name two
\* distinct channels, also when the two pairs share a quote currency.
C17_DistinctPairsDistinctChannels ==
    \A i, j \in 1..Len(Subs) :
        (/\ i # j
         /\ i <= Len(trading_pairs)
         /\ j <= Len(trading_pairs)
         /\ trading_pairs[i] # trading_pairs[j])
            => Subs[i].data.channel # Subs[j].data.channel

\* C18: while the task sleeps out the reconnect delay, every transport it has
\* opened is closed.
C18_NoOpenTransportInBackoff ==
    pc = "sleep" => \A s \in 1..Len(sessions) : sessions[s].closed

C18_Witness ==
    /\ pc = "sleep"
    /\ delay = RECONNECT_DELAY
    /\ sessions # <<>>
    /\ sessions[cur].closed
    /\ sessions[cur].exit = "error"
    /\ lastFailure = "frame_error"

UnknownPair ==
    \E i \in 1..Len(trading_pairs) : trading_pairs[i] \notin DOMAIN ActiveMarkets

\* C19: when some configured pair is unknown to the active markets, no
\* session ever sends a subscribe request or enters the receive loop; the
\* lookup fails after the auth request was sent, the failure leaves the
\* session, and the next connect comes after one 30s sleep.
C19_UnknownPairFailsBeforeSubscribe ==
    /\ [](UnknownPair =>
            /\ Subs = <<>>
            /\ Len(sent) <= 1
            /\ pc \notin {"sub_send", "recv", "ping", "pong", "gen_close"}
            /\ \A s \in 1..Len(sessions) : ~sessions[s].looped)
    /\ [][(UnknownPair /\ pc = "markets" /\ pc' # pc) =>
            /\ sent = <<AuthRequest>>
            /\ sent' = sent
            /\ pc' = "ctx_close"
            /\ exc' \in {"KeyError", "IOError", "CancelledError"}
            /\ exc' = "CancelledError" <=> cancelDelivered'
            /\ sessions'[cur].closes = sessions[cur].closes + 1]_vars
    /\ [][(UnknownPair /\ pc = "ctx_close" /\ exc = "KeyError" /\ pc' # pc) =>
            \/ /\ pc' = "sleep"
               /\ sleeps' = sleeps + 1
               /\ delay' = RECONNECT_DELAY
            \/ /\ pc' = "cancelled"
               /\ cancelDelivered']_vars
    /\ []((UnknownPair /\ lastFailure = "lookup_error" /\ pc = "connect") =>
            sleptSinceFailure = 1)

C19_Witness ==
    /\ trading_pairs = <<"ETH-USD", "XXX-YYY">>
    /\ pc = "connect"
    /\ lastFailure = "lookup_error"
    /\ sleptSinceFailure = 1
    /\ sent = <<AuthRequest>>
    /\ connects >= 1

\* C20: an 'updated' frame processed while the bounded output queue is full
\* is not enqueued; the put raises at once, the exception leaves the session,
\* the transport is closed, nothing is enqueued until the next connect, and
\* that connect comes after one 30s sleep.
C20_FullQueueDropsAndRestarts ==
    /\ [][(GotFrame /\ UpdatedWithChannel(NewFrame)
           /\ maxsize > 0 /\ Len(output) >= maxsize) =>
            /\ output' = output
            /\ enqueued' = enqueued
            /\ pc' = "ctx_close"
            /\ exc' = "QueueFull"
            /\ lastFailure' = "queue_full"
            /\ sessions'[cur].closes = sessions[cur].closes + 1]_vars
    /\ [][(pc = "ctx_close" /\ exc = "QueueFull" /\ pc' # pc) =>
            \/ /\ pc' = "sleep"
               /\ sleeps' = sleeps + 1
               /\ delay' = RECONNECT_DELAY
            \/ /\ pc' = "cancelled"
               /\ cancelDelivered']_vars
    /\ [][(lastFailure = "queue_full" /\ lastFailure' = "queue_full") =>
            /\ enqueued' = enqueued
            /\ received' = received
            /\ output' = output \/ (output # <<>> /\ output' = Tail(output))]_vars
    /\ [](lastFailure = "queue_full" =>
            /\ pc \notin {"recv", "ping", "pong"}
            /\ \A i \in 1..Len(output) : output[i].timestamp # received)
    /\ []((lastFailure = "queue_full" /\ pc = "connect") => sleptSinceFailure = 1)

C20_Witness ==
    /\ maxsize = 1
    /\ pc = "connect"
    /\ lastFailure = "queue_full"
    /\ sleptSinceFailure = 1
    /\ Len(output) = 1
    /\ received = 2
    /\ enqueued = 1
====
